---- MODULE Spec2Model ----
(***************************************************************************)
(* Knowledge-Summarizer-Agent: the ingestion and retrieval pipeline.       *)
(*                                                                         *)
(*   ContentChunker   src/processing/chunker.py                            *)
(*   Embedder         src/processing/embedder.py                           *)
(*   cloud functions  src/infrastructure/cloud_functions/main.py           *)
(*                                                                         *)
(* A text is modelled by its token sequence under the configured tokenizer *)
(* (tiktoken, an external library): token 0 is a whitespace token, a       *)
(* positive token is a non-whitespace token.  Costs are integers in units  *)
(* of 1e-8 USD, so that text-embedding-3-small (0.02 USD per 1M tokens)    *)
(* costs 2 units per token.                                                *)
(***************************************************************************)
EXTENDS Integers, Sequences, FiniteSets, TLC

VARIABLES
    \* ---- ContentChunker.chunk_text ----
    chunk_size,      \* self.chunk_size
    overlap_size,    \* self.overlap_size
    text,            \* the text argument, as its token sequence
    cpc,             \* position in chunk_text: "call", "loop", "fill", "done"
    start_idx,       \* local start_idx
    chunk_idx,       \* local chunk_idx
    chunks,          \* local chunks; the returned list once cpc = "done"
    \* ---- Embedder ----
    total_tokens_used,   \* self.total_tokens_used
    total_cost_usd,      \* self.total_cost_usd
    requests,            \* requests sent to the embedding service so far
    billed,              \* tokens the service reported over its successful calls
    last,                \* the last embed_text / embed_batch call and its result
    hist,                \* summary of the embed_text calls made so far
    ncalls,              \* calls made so far
    \* ---- concurrent callers of embed_text ----
    thr,                 \* per thread: position in embed_text and its locals
    \* ---- cloud functions (one process) ----
    fpc,                 \* position of the running invocation, "idle" between them
    inv,                 \* the running / last invocation
    store,               \* the records held by the vector service
    ninv,                \* invocations so far
    \* ---- PineconeStore ----
    dimension,           \* self.dimension, fixed at construction
    index_dim,           \* the dimension of the index the service holds
    index,               \* the records the service holds in the index
    pcall,               \* the running / last PineconeStore call
    \* ---- CloudStorageCache ----
    now,                 \* datetime.utcnow(), in seconds
    files,               \* the cache directory: per key, the file's content
    ccall,               \* the last CloudStorageCache call and what it returned
    getter,              \* a concurrent caller of get: its position and locals
    \* ---- PIIScanner ----
    data,                \* the structure handed to the scanner
    scall,               \* the scanner call made
    scan_result,         \* the PIIScanResult it returned
    \* ---- PIIRedactor ----
    enabled,             \* self.enabled
    pii_text,            \* the text handed to redact, as its characters
    first,               \* the result of redact(text)
    second               \* the result of redact on the redacted_text of first

chunkVars == <<chunk_size, overlap_size, text, cpc, start_idx, chunk_idx, chunks>>

embedVars == <<total_tokens_used, total_cost_usd, requests, billed, last, hist, ncalls>>

concVars == <<thr>>

procVars == <<fpc, inv, store, ninv>>

pineVars == <<dimension, index_dim, index, pcall>>

cacheVars == <<now, files, ccall, getter>>

storageVars == <<pineVars, cacheVars>>

piiVars == <<data, scall, scan_result, enabled, pii_text, first, second>>

vars == <<chunkVars, embedVars, concVars, procVars, storageVars, piiVars>>

(***************************************************************************)
(* Bounds of the model.                                                    *)
(***************************************************************************)
MaxTokens == 5        \* longest small text, in tokens
MaxBlank == 2         \* longest whitespace-only text, in tokens
MaxChunkSize == 3     \* largest small window
MaxOverlap == 4       \* largest small overlap (reaches overlap >= window)
MaxChunks == 7        \* segments one call may append before the model stops it
MonthlyBudget == 10   \* monthly_budget_usd of the Embedder under test, in cost units
BatchSize == 2        \* batch_size of the Embedder under test
MaxTextTokens == 3    \* longest text handed to the Embedder, in tokens
MaxBatchLen == 3      \* longest list handed to embed_batch
MaxUsage == 3         \* largest token usage the service reports for one request
MaxCalls == 4         \* embed_text calls made on one Embedder
MaxBatchCalls == 2    \* calls made on one Embedder when embed_batch is among them
MaxThreadCalls == 1   \* embed_text calls of each concurrent caller
MaxInvocations == 2   \* cloud function invocations in one process
MaxUpsertLen == 3     \* longest vectors list handed to upsert_vectors
UpsertBatchSize == 2  \* batch_size of upsert_vectors
MaxTime == 4          \* the clock stops here
MaxTtl == 2           \* largest ttl_seconds handed to set
DefaultTtl == 3       \* default_ttl_seconds of the cache under test
MaxGetterCalls == 2   \* get calls of the concurrent caller
MaxItems == 2         \* most items of a dict or list handed to the scanner
MaxPieces == 4        \* most pieces a text handed to redact is put together from

None == "None"

Min(a, b) == IF a < b THEN a ELSE b
Max(a, b) == IF a > b THEN a ELSE b

(***************************************************************************)
(* Python sequence slicing s[a:b] (step 1): a negative index counts from   *)
(* the end, indices are clamped to 0..len(s), an empty range is empty.     *)
(***************************************************************************)
PyIndex(i, n) == IF i < 0 THEN Max(i + n, 0) ELSE Min(i, n)

PySlice(s, a, b) ==
    LET lo == PyIndex(a, Len(s))
        hi == PyIndex(b, Len(s))
    IN  IF lo < hi THEN SubSeq(s, lo + 1, hi) ELSE <<>>

(***************************************************************************)
(* Texts.  TextOfLen(n) has n distinct non-whitespace tokens 1..n;         *)
(* Whitespace(n) has n whitespace tokens.                                  *)
(***************************************************************************)
TextOfLen(n) == [i \in 1..n |-> i]
Whitespace(n) == [i \in 1..n |-> 0]

\* not text or not text.strip()
IsBlank(t) == \A i \in 1..Len(t) : t[i] = 0

\* self.encoding.encode(text), self.encoding.decode(tokens)
Encode(t) == t
Decode(toks) == toks

\* ContentChunker.__init__ defaults
DefaultChunkSize == 500
DefaultOverlapSize == 50

\* the metadata argument (chunk_document's base_metadata)
BaseMetadata == [source |-> "slack"]

(***************************************************************************)
(* chunk_text                                                              *)
(***************************************************************************)
\* line 86: end_idx = min(start_idx + self.chunk_size, total_tokens)
EndIdx(start, total) == Min(start + chunk_size, total)

\* a window advance that skips the token after the previous window
NextStartIdxSkips(end) == end - overlap_size + 1

\* line 108: start_idx = end_idx - self.overlap_size
NextStartIdx(end) == end - overlap_size

\* lines 93-104: the Chunk of one window
WindowChunk(tokens, start, end, idx) ==
    LET chunk_tokens == PySlice(tokens, start, end)
    IN  [content     |-> Decode(chunk_tokens),
         metadata    |-> [chunk_index  |-> idx,
                          total_chunks |-> None,
                          start_token  |-> start,
                          end_token    |-> end] @@ BaseMetadata,
         token_count |-> Len(chunk_tokens),
         chunk_index |-> idx]

\* lines 73-78: the single Chunk of a text that fits in one window
SingleChunk(t, total) ==
    [content     |-> t,
     metadata    |-> BaseMetadata,
     token_count |-> total,
     chunk_index |-> 0]

\* lines 116-117: chunk.metadata["total_chunks"] = len(chunks)
FillTotal(cs) ==
    [k \in 1..Len(cs) |->
        [cs[k] EXCEPT !.metadata = [cs[k].metadata EXCEPT !.total_chunks = Len(cs)]]]

\* lines 61-82: entry, the two early returns, the loop's initialisation
ChunkTextEnter ==
    /\ cpc = "call"
    /\ LET tokens == Encode(text)
           total_tokens == Len(tokens)
       IN  IF IsBlank(text)
           THEN /\ chunks' = <<>>
                /\ cpc' = "done"
           ELSE IF total_tokens <= chunk_size
           THEN /\ chunks' = <<SingleChunk(text, total_tokens)>>
                /\ cpc' = "done"
           ELSE /\ chunks' = <<>>
                /\ cpc' = "loop"
    /\ start_idx' = 0
    /\ chunk_idx' = 0
    /\ UNCHANGED <<chunk_size, overlap_size, text>>

\* lines 84-113: one iteration of the while loop; lines 84 and 112 both leave
\* the loop when start_idx >= total_tokens
ChunkTextWindow ==
    /\ cpc = "loop"
    /\ Len(chunks) < MaxChunks
    /\ LET tokens == Encode(text)
           total_tokens == Len(tokens)
           end_idx == EndIdx(start_idx, total_tokens)
       IN  /\ start_idx < total_tokens
           /\ chunks' = Append(chunks, WindowChunk(tokens, start_idx, end_idx, chunk_idx))
           /\ start_idx' = NextStartIdx(end_idx)
           /\ chunk_idx' = chunk_idx + 1
           /\ cpc' = IF start_idx' >= total_tokens THEN "fill" ELSE "loop"
    /\ UNCHANGED <<chunk_size, overlap_size, text>>

\* lines 115-126: fill in total_chunks and return
ChunkTextReturn ==
    /\ cpc = "fill"
    /\ chunks' = FillTotal(chunks)
    /\ cpc' = "done"
    /\ UNCHANGED <<chunk_size, overlap_size, text, start_idx, chunk_idx>>

ChunkInit ==
    /\ \/ /\ text \in {TextOfLen(n) : n \in 0..MaxTokens}
                  \cup {Whitespace(n) : n \in 1..MaxBlank}
          /\ chunk_size \in 1..MaxChunkSize
          /\ overlap_size \in 0..MaxOverlap
       \/ /\ text = TextOfLen(1200)
          /\ chunk_size = DefaultChunkSize
          /\ overlap_size = DefaultOverlapSize
    /\ cpc = "call"
    /\ start_idx = 0
    /\ chunk_idx = 0
    /\ chunks = <<>>


\* no chunk_text call in progress
ChunkIdle ==
    /\ text = <<>>
    /\ chunk_size = DefaultChunkSize
    /\ overlap_size = DefaultOverlapSize
    /\ cpc = "done"
    /\ start_idx = 0
    /\ chunk_idx = 0
    /\ chunks = <<>>

(***************************************************************************)
(* Embedder                                                                *)
(***************************************************************************)
\* COSTS["text-embedding-3-small"] / 1_000_000, in cost units per token
CostPerToken == 2

Model == "text-embedding-3-small"

\* a refused or failed item
NoneResult == [none |-> TRUE]

\* what the embedding service does with one request: it fails, or it answers
\* with one vector per input, in input order, and the usage it reports
Outcomes ==
    {[ok |-> FALSE, usage |-> 0]} \cup {[ok |-> TRUE, usage |-> u] : u \in 0..MaxUsage}

\* the vector the service returns for a text
Vector(t) == [embedding_of |-> t]

\* the texts handed to the Embedder: empty, whitespace only, short, long
EmbedTexts == {TextOfLen(0), Whitespace(1), TextOfLen(1), TextOfLen(MaxTextTokens)}

\* the lists handed to embed_batch: lists of two different texts, and lists
\* with an empty string in them
BatchInputs ==
    UNION {[1..n -> {TextOfLen(1), TextOfLen(2)}] : n \in 0..MaxBatchLen}
    \cup {<<TextOfLen(0)>>, <<TextOfLen(0), TextOfLen(1)>>,
          <<TextOfLen(0), TextOfLen(1), TextOfLen(1)>>}

\* no call made yet
NoCall ==
    [op |-> "none", texts |-> <<>>, admitted |-> FALSE, refused |-> FALSE,
     requests |-> 0, succeeded |-> 0, usage |-> 0, results |-> <<>>, done |-> TRUE]

\* no embed_text call made yet
NoHistory ==
    [est_sum |-> 0, nones |-> 0, refused |-> 0, failed |-> FALSE,
     under_billed |-> FALSE, over_billed |-> FALSE, only_text |-> TRUE,
     last_actual |-> 0]

\* Embedder.__init__, lines 60-62
EmbedderInit ==
    /\ total_tokens_used = 0
    /\ total_cost_usd = 0
    /\ requests = 0
    /\ billed = 0
    /\ last = NoCall
    /\ hist = NoHistory
    /\ ncalls = 0

\* estimate_cost, lines 75-77
EstimateCost(t) == Len(Encode(t)) * CostPerToken

\* a budget check that looks at the spend so far only
CheckBudgetIgnoresEstimate(estimated_cost) == ~(total_cost_usd > MonthlyBudget)

\* a budget check that never refuses
CheckBudgetNeverRefuses(estimated_cost) == TRUE

\* check_budget, lines 89-109 (the 75% alert only logs)
CheckBudget(estimated_cost) ==
    LET projected_cost == total_cost_usd + estimated_cost
    IN  ~(projected_cost > MonthlyBudget)

\* lines 139, 201: actual_cost = (tokens_used / 1_000_000) * COSTS[model]
ActualCost(tokens_used) == tokens_used * CostPerToken

\* a counter update that overwrites instead of accumulating
TrackOverwrites(total, amount) == amount

\* lines 142-143, 204-205: self.total_... += ...
Track(total, amount) == total + amount

\* lines 152-157: the EmbeddingResult of embed_text
TextResult(t, tokens_used) ==
    [none |-> FALSE, vector |-> Vector(t), model |-> Model,
     token_count |-> tokens_used, cost_usd |-> <<ActualCost(tokens_used), 1>>]

\* lines 216-222: the EmbeddingResults of one sub-batch (cost_usd is the
\* quotient actual_cost / len(batch), kept as numerator and denominator)
BatchResults(batch, tokens_used) ==
    [j \in 1..Len(batch) |->
        [none |-> FALSE, vector |-> Vector(batch[j]), model |-> Model,
         token_count |-> tokens_used \div Len(batch),
         cost_usd |-> <<ActualCost(tokens_used), Len(batch)>>]]

\* embed_text, lines 121-161, by a sequential caller; o is what the service
\* does if the request is sent
EmbedText(t, o) ==
    /\ last.done
    /\ ncalls < MaxCalls
    /\ ncalls' = ncalls + 1
    /\ LET estimated_cost == EstimateCost(t)
           blank == IsBlank(t)
           refused == ~blank /\ ~CheckBudget(estimated_cost)
           sent == ~blank /\ ~refused
           good == sent /\ o.ok
           tokens_used == IF good THEN o.usage ELSE 0
           actual_cost == ActualCost(tokens_used)
       IN  /\ total_tokens_used' =
                 IF good THEN Track(total_tokens_used, tokens_used) ELSE total_tokens_used
           /\ total_cost_usd' =
                 IF good THEN Track(total_cost_usd, actual_cost) ELSE total_cost_usd
           /\ requests' = IF sent THEN requests + 1 ELSE requests
           /\ billed' = billed + tokens_used
           /\ last' = [op |-> "embed_text", texts |-> <<t>>, admitted |-> sent,
                       refused |-> refused,
                       requests |-> IF sent THEN 1 ELSE 0,
                       succeeded |-> IF good THEN 1 ELSE 0,
                       usage |-> tokens_used,
                       results |-> IF good THEN <<TextResult(t, tokens_used)>>
                                   ELSE <<NoneResult>>,
                       done |-> TRUE]
           /\ hist' = [est_sum |-> hist.est_sum + (IF blank THEN 0 ELSE estimated_cost),
                       nones |-> hist.nones + (IF good THEN 0 ELSE 1),
                       refused |-> hist.refused + (IF refused THEN 1 ELSE 0),
                       failed |-> hist.failed \/ (sent /\ ~good),
                       under_billed |-> hist.under_billed
                                        \/ (good /\ actual_cost < estimated_cost),
                       over_billed |-> hist.over_billed
                                       \/ (good /\ actual_cost > estimated_cost),
                       only_text |-> hist.only_text,
                       last_actual |-> IF good THEN actual_cost ELSE hist.last_actual]

RECURSIVE SumEstimates(_, _)
\* line 182: sum(self.estimate_cost(text) for text in texts if text)
SumEstimates(texts, k) ==
    IF k = 0 THEN 0
    ELSE SumEstimates(texts, k - 1)
           + (IF texts[k] # <<>> THEN EstimateCost(texts[k]) ELSE 0)

\* line 191: the sub-batches of range(0, len(texts), self.batch_size)
NumBatches(n) == (n + BatchSize - 1) \div BatchSize

\* a loop that sends the first sub-batch again and again
SubBatchFirst(texts, k) ==
    PySlice(texts, 0, Min(BatchSize, Len(texts) - (k - 1) * BatchSize))

\* line 192: batch = texts[i:i + self.batch_size], i the start of sub-batch k
SubBatch(texts, k) == PySlice(texts, (k - 1) * BatchSize, (k - 1) * BatchSize + BatchSize)

\* an except branch that records nothing for the failed sub-batch
FailedBatchDropped(batch) == <<>>

\* lines 224-227: [None] * len(batch)
FailedBatch(batch) == [j \in 1..Len(batch) |-> NoneResult]

\* embed_batch, lines 178-188: the empty-list return, the budget gate, the
\* start of the loop
EmbedBatchEnter(texts) ==
    /\ last.done
    /\ ncalls < MaxBatchCalls
    /\ ncalls' = ncalls + 1
    /\ LET total_estimated_cost == SumEstimates(texts, Len(texts))
           refused == texts # <<>> /\ ~CheckBudget(total_estimated_cost)
           admitted == texts # <<>> /\ ~refused
       IN  last' = [op |-> "embed_batch", texts |-> texts, admitted |-> admitted,
                    refused |-> refused, requests |-> 0, succeeded |-> 0, usage |-> 0,
                    results |-> IF refused THEN [j \in 1..Len(texts) |-> NoneResult]
                                ELSE <<>>,
                    done |-> ~admitted]
    /\ hist' = [hist EXCEPT !.only_text = FALSE]
    /\ UNCHANGED <<total_tokens_used, total_cost_usd, requests, billed>>

\* embed_batch, lines 191-229: one sub-batch; the call returns after the last
EmbedBatchSubBatch(o) ==
    /\ ~last.done
    /\ last.op = "embed_batch"
    /\ LET k == last.requests + 1
           batch == SubBatch(last.texts, k)
           tokens_used == IF o.ok THEN o.usage ELSE 0
           actual_cost == ActualCost(tokens_used)
       IN  /\ total_tokens_used' =
                 IF o.ok THEN Track(total_tokens_used, tokens_used) ELSE total_tokens_used
           /\ total_cost_usd' =
                 IF o.ok THEN Track(total_cost_usd, actual_cost) ELSE total_cost_usd
           /\ requests' = requests + 1
           /\ billed' = billed + tokens_used
           /\ last' = [last EXCEPT
                         !.requests = k,
                         !.succeeded = @ + (IF o.ok THEN 1 ELSE 0),
                         !.usage = @ + tokens_used,
                         !.results = @ \o (IF o.ok THEN BatchResults(batch, tokens_used)
                                           ELSE FailedBatch(batch)),
                         !.done = (k = NumBatches(Len(last.texts)))]
    /\ UNCHANGED <<hist, ncalls>>

(***************************************************************************)
(* embed_text run by concurrent callers on one Embedder.  The Embedder     *)
(* holds no lock; self.x += y is a read of self.x followed by a write.     *)
(***************************************************************************)
Threads == {"A", "B"}

ThreadIdle ==
    [pc |-> "idle", text |-> <<>>, estimated_cost |-> 0, tokens_used |-> 0,
     actual_cost |-> 0, tmp |-> 0, calls |-> 0, ret |-> "none"]

ConcInit == thr = [t \in Threads |-> ThreadIdle]

\* lines 121-129: the blank test, the estimate and the budget check
ThreadEnter(t, txt) ==
    /\ thr[t].pc = "idle"
    /\ thr[t].calls < MaxThreadCalls
    /\ LET estimated_cost == EstimateCost(txt)
           go == ~IsBlank(txt) /\ CheckBudget(estimated_cost)
       IN  thr' = [thr EXCEPT ![t] =
                     [@ EXCEPT !.pc = IF go THEN "request" ELSE "idle",
                               !.text = txt,
                               !.estimated_cost = estimated_cost,
                               !.calls = @ + 1,
                               !.ret = IF go THEN "none" ELSE "None"]]
    /\ UNCHANGED embedVars

\* lines 132-139: the request and the service's answer
ThreadRequest(t, o) ==
    /\ thr[t].pc = "request"
    /\ requests' = requests + 1
    /\ billed' = billed + (IF o.ok THEN o.usage ELSE 0)
    /\ hist' = [hist EXCEPT !.over_billed =
                  @ \/ (o.ok /\ ActualCost(o.usage) > thr[t].estimated_cost)]
    /\ thr' = [thr EXCEPT ![t] =
                 IF o.ok
                 THEN [@ EXCEPT !.pc = "load_tokens",
                                !.tokens_used = o.usage,
                                !.actual_cost = ActualCost(o.usage)]
                 ELSE [@ EXCEPT !.pc = "idle", !.ret = "None"]]
    /\ UNCHANGED <<total_tokens_used, total_cost_usd, last, ncalls>>

\* line 142, the read of self.total_tokens_used
ThreadLoadTokens(t) ==
    /\ thr[t].pc = "load_tokens"
    /\ thr' = [thr EXCEPT ![t] = [@ EXCEPT !.pc = "store_tokens",
                                           !.tmp = total_tokens_used]]
    /\ UNCHANGED embedVars

\* line 142, the write of self.total_tokens_used
ThreadStoreTokens(t) ==
    /\ thr[t].pc = "store_tokens"
    /\ total_tokens_used' = Track(thr[t].tmp, thr[t].tokens_used)
    /\ thr' = [thr EXCEPT ![t] = [@ EXCEPT !.pc = "load_cost"]]
    /\ UNCHANGED <<total_cost_usd, requests, billed, last, hist, ncalls>>

\* line 143, the read of self.total_cost_usd
ThreadLoadCost(t) ==
    /\ thr[t].pc = "load_cost"
    /\ thr' = [thr EXCEPT ![t] = [@ EXCEPT !.pc = "store_cost",
                                           !.tmp = total_cost_usd]]
    /\ UNCHANGED embedVars

\* line 143, the write of self.total_cost_usd, and the return at lines 145-157
ThreadStoreCost(t) ==
    /\ thr[t].pc = "store_cost"
    /\ total_cost_usd' = Track(thr[t].tmp, thr[t].actual_cost)
    /\ thr' = [thr EXCEPT ![t] = [@ EXCEPT !.pc = "idle", !.ret = "result"]]
    /\ UNCHANGED <<total_tokens_used, requests, billed, last, hist, ncalls>>

(***************************************************************************)
(* The cloud functions, run one invocation at a time in one process.       *)
(***************************************************************************)
\* PineconeStore.NAMESPACES
Sources == {"slack", "notion", "drive"}

\* a routing that gives every source a partition of its own name
NamespaceOfItsOwn(source) == source \o "/"

\* NAMESPACES.get(source, "default")
Namespace(source) == IF source \in Sources THEN source \o "/" ELSE "default"

\* a token that a PIIRedactor pattern matches, and the placeholder token
PiiToken == -1
RedactedToken == -2

\* a redactor that returns its input
RedactNothing(content) == content

\* PIIRedactor.redact on the token view of a text: every matched token is
\* replaced by its placeholder
Redact(content) ==
    [i \in 1..Len(content) |->
        IF content[i] = PiiToken THEN RedactedToken ELSE content[i]]

\* line 80: chunk.content[:1000], the stored preview
PreviewLen == 1000
Preview(content) == PySlice(content, 0, PreviewLen)

NoInvocation ==
    [fn |-> "none", source |-> "", id |-> "", raw |-> <<>>, texts |-> <<>>,
     namespace |-> "",
     checked |-> FALSE, check_base |-> 0, spent_before |-> 0,
     status |-> "none", results |-> {}]

ProcInit ==
    /\ fpc = "idle"
    /\ inv = NoInvocation
    /\ store = {}
    /\ ninv = 0

\* Embedder(): a new instance with its counters at zero
NewEmbedder ==
    /\ total_tokens_used' = 0
    /\ total_cost_usd' = 0
    /\ last' = NoCall
    /\ hist' = NoHistory
    /\ ncalls' = 0
    /\ UNCHANGED <<requests, billed>>

\* the Pub/Sub messages and requests the functions are invoked with
Messages ==
    [source : {"slack", "drive", "wiki", None}, id : {"m1"},
     content : {<<>>, TextOfLen(2), <<1, PiiToken>>, TextOfLen(DefaultChunkSize + 1)}]
\* the texts lists embed_function is requested with: none, one text, more
\* texts than one sub-batch holds
FunctionTexts ==
    {<<>>, <<TextOfLen(1)>>, [j \in 1..(BatchSize + 1) |-> TextOfLen(1 + (j % 2))]}
Queries == {TextOfLen(0), TextOfLen(1), TextOfLen(MaxTextTokens)}
QueryNamespaces == {"all", "slack/"}

\* the budget check the invocation is about to make, and the spend of the
\* process at that moment
Checking(i) ==
    [i EXCEPT !.checked = TRUE,
              !.check_base = total_cost_usd,
              !.spent_before = ActualCost(billed)]

\* ingest_function, lines 32-63: decode, construct the components, redact,
\* call chunk_document
IngestBegin(msg) ==
    /\ fpc = "idle"
    /\ ninv < MaxInvocations
    /\ ninv' = ninv + 1
    /\ NewEmbedder
    /\ chunk_size' = DefaultChunkSize
    /\ overlap_size' = DefaultOverlapSize
    /\ text' = Redact(msg.content)
    /\ cpc' = "call"
    /\ start_idx' = 0
    /\ chunk_idx' = 0
    /\ chunks' = <<>>
    /\ inv' = [NoInvocation EXCEPT !.fn = "ingest", !.source = msg.source,
                                   !.id = msg.id, !.raw = msg.content,
                                   !.status = "running"]
    /\ fpc' = "ingest_chunk"
    /\ UNCHANGED <<store, thr>>

\* ingest_function, lines 55-63: chunk_document runs chunk_text
IngestChunk ==
    /\ fpc = "ingest_chunk"
    /\ ChunkTextEnter \/ ChunkTextWindow \/ ChunkTextReturn
    /\ UNCHANGED <<embedVars, concVars, procVars>>

\* ingest_function, lines 66-67: embed_batch on the chunk contents
IngestEmbed ==
    /\ fpc = "ingest_chunk"
    /\ cpc = "done"
    /\ LET texts == [k \in 1..Len(chunks) |-> chunks[k].content]
       IN  /\ EmbedBatchEnter(texts)
           /\ inv' = IF texts = <<>> THEN [inv EXCEPT !.texts = texts]
                     ELSE [Checking(inv) EXCEPT !.texts = texts]
    /\ fpc' = "ingest_embed"
    /\ UNCHANGED <<chunkVars, concVars, store, ninv>>

\* embed_batch's loop inside ingest_function and embed_function
FunctionEmbedStep(o) ==
    /\ fpc \in {"ingest_embed", "embed_embed"}
    /\ EmbedBatchSubBatch(o)
    /\ UNCHANGED <<chunkVars, concVars, procVars>>

\* ingest_function, lines 70-105: collect the embedded chunks, upsert them
\* into the namespace of the source, return; ok is whether the vector
\* service accepts the upsert
IngestUpsert(ok) ==
    /\ fpc = "ingest_embed"
    /\ last.done
    /\ LET embedded == {k \in 1..Len(chunks) : ~last.results[k].none}
           records == {[namespace |-> Namespace(inv.source),
                        id |-> <<inv.source, inv.id, chunks[k].chunk_index>>,
                        content |-> Preview(chunks[k].content),
                        vector |-> last.results[k].vector] : k \in embedded}
       IN  IF embedded = {} THEN /\ store' = store
                                 /\ inv' = [inv EXCEPT !.status = "success"]
           ELSE IF ok THEN /\ store' = {r \in store :
                                          \A n \in records :
                                             <<r.namespace, r.id>> # <<n.namespace, n.id>>}
                                       \cup records
                           /\ inv' = [inv EXCEPT !.status = "success"]
           ELSE /\ store' = store
                /\ inv' = [inv EXCEPT !.status = "error"]
    /\ fpc' = "idle"
    /\ UNCHANGED <<chunkVars, embedVars, concVars, ninv>>

\* embed_function, lines 131-138: the request, Embedder()
EmbedFunctionBegin(texts) ==
    /\ fpc = "idle"
    /\ ninv < MaxInvocations
    /\ ninv' = ninv + 1
    /\ IF texts = <<>>
       THEN /\ inv' = [NoInvocation EXCEPT !.fn = "embed", !.status = "400"]
            /\ fpc' = "idle"
            /\ UNCHANGED embedVars
       ELSE /\ inv' = [NoInvocation EXCEPT !.fn = "embed", !.texts = texts,
                                           !.status = "running"]
            /\ fpc' = "embed_new"
            /\ NewEmbedder
    /\ UNCHANGED <<chunkVars, concVars, store>>

\* embed_function, line 139: embed_batch(texts)
EmbedFunctionCall ==
    /\ fpc = "embed_new"
    /\ EmbedBatchEnter(inv.texts)
    /\ inv' = Checking(inv)
    /\ fpc' = "embed_embed"
    /\ UNCHANGED <<chunkVars, concVars, store, ninv>>

\* embed_function, lines 141-155: the response
EmbedFunctionReturn ==
    /\ fpc = "embed_embed"
    /\ last.done
    /\ inv' = [inv EXCEPT !.status = "success"]
    /\ fpc' = "idle"
    /\ UNCHANGED <<chunkVars, embedVars, concVars, store, ninv>>

\* query_function, lines 187-196: the request, Embedder()
QueryFunctionBegin(q, ns) ==
    /\ fpc = "idle"
    /\ ninv < MaxInvocations
    /\ ninv' = ninv + 1
    /\ IF q = <<>>
       THEN /\ inv' = [NoInvocation EXCEPT !.fn = "query", !.status = "400"]
            /\ fpc' = "idle"
            /\ UNCHANGED embedVars
       ELSE /\ inv' = [NoInvocation EXCEPT !.fn = "query", !.texts = <<q>>,
                                           !.namespace = ns, !.status = "running"]
            /\ fpc' = "query_new"
            /\ NewEmbedder
    /\ UNCHANGED <<chunkVars, concVars, store>>

\* PineconeStore.query: the ids the service holds in the namespace
QueryNamespace(ns) == {r.id : r \in {x \in store : x.namespace = ns}}

\* PineconeStore.query_all_namespaces: the sources with results
QueryAllNamespaces ==
    {<<source, QueryNamespace(Namespace(source))>> :
        source \in {x \in Sources : QueryNamespace(Namespace(x)) # {}}}

\* query_function, lines 197-227: embed the query, search, respond
QueryFunctionSearch(o) ==
    /\ fpc = "query_new"
    /\ EmbedText(inv.texts[1], o)
    /\ LET answered == ~IsBlank(inv.texts[1]) /\ CheckBudget(EstimateCost(inv.texts[1]))
                       /\ o.ok
           checked == IF IsBlank(inv.texts[1]) THEN inv ELSE Checking(inv)
       IN  inv' = IF ~answered THEN [checked EXCEPT !.status = "500"]
                  ELSE [checked EXCEPT
                          !.status = "success",
                          !.results = IF inv.namespace = "all" THEN QueryAllNamespaces
                                      ELSE {<<inv.namespace, QueryNamespace(inv.namespace)>>}]
    /\ fpc' = "idle"
    /\ UNCHANGED <<chunkVars, concVars, store, ninv>>

(***************************************************************************)
(* PineconeStore                                                           *)
(***************************************************************************)
\* the dimensions a store is constructed with and an index can have
Dims == {2, 3}
VectorOfDim(d) == [i \in 1..d |-> 1]
StoreVectors == {VectorOfDim(d) : d \in Dims}
QueryVectors == StoreVectors \cup {<<>>}

\* the records an index that existed before the store was constructed holds:
\* one record, id 0, in the namespace of each source of S
ExistingRecords(S, d) ==
    {[namespace |-> Namespace(source), id |-> 0, values |-> VectorOfDim(d)] : source \in S}

NoStoreCall ==
    [op |-> "none", vectors |-> <<>>, nids |-> 0, nmeta |-> 0, namespace |-> "",
     vector |-> <<>>, io |-> 0, total_upserted |-> 0, outcome |-> "none",
     result |-> <<>>, mapping |-> {}, served |-> {}, done |-> TRUE]

\* __init__ and _init_index, lines 41-76: the index is created with
\* self.dimension if there is none of that name, otherwise the existing one
\* is connected to, whatever its dimension and content
PineInit ==
    /\ dimension = 2
    /\ index_dim \in Dims
    /\ index \in {ExistingRecords(S, index_dim) : S \in SUBSET Sources}
    /\ pcall = NoStoreCall

\* a store whose index was created by its constructor
PineIdle ==
    /\ dimension = 2
    /\ index_dim = 2
    /\ index = {}
    /\ pcall = NoStoreCall

\* the lengths of the ids and metadata lists handed in with n vectors
LenChoices(n) == {m \in {n - 1, n, n + 1} : m >= 0 /\ m <= MaxUpsertLen}

\* the arguments of upsert_vectors; the id at position j is j
UpsertInputs ==
    UNION {{[vectors |-> v, nids |-> a, nmeta |-> b] :
               v \in [1..n -> StoreVectors], a \in LenChoices(n), b \in LenChoices(n)} :
           n \in 0..MaxUpsertLen}

\* line 102: not vectors or len(vectors) != len(ids) or len(vectors) != len(metadata)
LengthsInvalid(inp) ==
    inp.vectors = <<>> \/ Len(inp.vectors) # inp.nids \/ Len(inp.vectors) # inp.nmeta

\* upsert_vectors, lines 102-118: the validation and the start of the loop
UpsertVectorsEnter(inp, ns) ==
    /\ pcall.done
    /\ pcall' = [NoStoreCall EXCEPT
                   !.op = "upsert_vectors", !.vectors = inp.vectors,
                   !.nids = inp.nids, !.nmeta = inp.nmeta, !.namespace = ns,
                   !.outcome = IF LengthsInvalid(inp) THEN "ValueError" ELSE "running",
                   !.done = LengthsInvalid(inp)]
    /\ UNCHANGED <<dimension, index_dim, index>>

\* lines 119-120: the positions of batch k, vectors_to_upsert[i:i + batch_size]
UpsertPositions(k, n) == {j \in 1..n : (j - 1) \div UpsertBatchSize = k - 1}

\* the service stores a batch whole or rejects it whole; it rejects a batch
\* holding a vector that is not of the index's dimension
ServiceAccepts(vectors, positions) ==
    \A j \in positions : Len(vectors[j]) = index_dim

\* upsert_vectors, lines 119-141: one batch; an exception of the service
\* call is logged and raised again, the last batch is followed by the return
UpsertVectorsBatch(ok) ==
    /\ ~pcall.done
    /\ pcall.op = "upsert_vectors"
    /\ LET k == pcall.io + 1
           n == Len(pcall.vectors)
           positions == UpsertPositions(k, n)
           records == {[namespace |-> pcall.namespace, id |-> j,
                        values |-> pcall.vectors[j]] : j \in positions}
           final == k * UpsertBatchSize >= n
       IN  IF ok /\ ServiceAccepts(pcall.vectors, positions)
           THEN /\ index' = {r \in index : r.namespace # pcall.namespace
                                           \/ r.id \notin positions} \cup records
                /\ pcall' = [pcall EXCEPT
                               !.io = k,
                               !.total_upserted = @ + Cardinality(positions),
                               !.outcome = IF final THEN "ok" ELSE "running",
                               !.done = final]
           ELSE /\ index' = index
                /\ pcall' = [pcall EXCEPT !.io = k, !.outcome = "error", !.done = TRUE]
    /\ UNCHANGED <<dimension, index_dim>>

RECURSIVE SortedIds(_)
\* the ids of a set of records, in the order the service returns them
SortedIds(S) ==
    IF S = {} THEN <<>>
    ELSE LET m == CHOOSE x \in S : \A y \in S : x <= y
         IN  <<m>> \o SortedIds(S \ {m})

\* the matches the service returns for a query of a namespace
ServiceMatches(ns) == SortedIds({r.id : r \in {x \in index : x.namespace = ns}})

\* query, lines 164-192: the service call; its matches become the result
\* list in the same order, an exception becomes []
QueryOne(vector, ns, ok) ==
    IF ok /\ Len(vector) = index_dim
    THEN [j \in 1..Len(ServiceMatches(ns)) |-> [id |-> ServiceMatches(ns)[j]]]
    ELSE <<>>

\* PineconeStore.query
PineQuery(vector, ns, ok) ==
    /\ pcall.done
    /\ pcall' = [NoStoreCall EXCEPT
                   !.op = "query", !.vector = vector, !.namespace = ns, !.io = 1,
                   !.outcome = "returned", !.result = QueryOne(vector, ns, ok),
                   !.served = IF ok /\ Len(vector) = index_dim THEN {ns} ELSE {}]
    /\ UNCHANGED <<dimension, index_dim, index>>

\* a query_all_namespaces that keeps the empty result lists
AllResultsZeroFilled(vector, oks) ==
    {<<source, QueryOne(vector, Namespace(source), oks[source])>> : source \in Sources}

\* query_all_namespaces, lines 211-221: all_results
AllResults(vector, oks) ==
    {<<source, QueryOne(vector, Namespace(source), oks[source])>> :
        source \in {x \in Sources : QueryOne(vector, Namespace(x), oks[x]) # <<>>}}

\* PineconeStore.query_all_namespaces
PineQueryAllNamespaces(vector, oks) ==
    /\ pcall.done
    /\ pcall' = [NoStoreCall EXCEPT
                   !.op = "query_all_namespaces", !.vector = vector,
                   !.io = Cardinality(Sources), !.outcome = "returned",
                   !.mapping = AllResults(vector, oks),
                   !.served = {source \in Sources :
                                 oks[source] /\ Len(vector) = index_dim}]
    /\ UNCHANGED <<dimension, index_dim, index>>

(***************************************************************************)
(* CloudStorageCache.  Time is counted in whole seconds; the cache        *)
(* directory holds one file per key (the file name is the key's hash).     *)
(***************************************************************************)
CacheKeys == {"k1", "k2"}
CacheValues == {"a", "b"}

\* ttl_seconds left out by the caller (None)
NoTtl == -1
TtlArgs == {NoTtl} \cup (0..MaxTtl)

\* datetime.isoformat and datetime.fromisoformat
IsoFormat(t) == [iso |-> t]
FromIsoFormat(s) == s.iso

\* no file for the key
NoFile == [exists |-> FALSE]

NoCacheCall ==
    [op |-> "none", key |-> "", value |-> "", ttl_seconds |-> NoTtl, ttl |-> 0,
     expires_at |-> 0,
     hit |-> FALSE, expired |-> FALSE, cleared |-> 0,
     stats |-> [total_entries |-> 0, valid_entries |-> 0, expired_entries |-> 0],
     done |-> TRUE]

\* the concurrent caller of get between its calls
GetterIdle ==
    [pc |-> "idle", key |-> "", ret |-> "none", value |-> "", calls |-> 0,
     unlinked |-> NoFile, at |-> 0]

\* __init__, lines 32-34: the (new) cache directory
CacheIdle ==
    /\ now = 0
    /\ files = [k \in CacheKeys |-> NoFile]
    /\ ccall = NoCacheCall
    /\ getter = GetterIdle

\* time passes
Tick ==
    /\ now < MaxTime
    /\ now' = now + 1
    /\ UNCHANGED <<files, ccall>>

\* set, lines 63-64: ttl = ttl_seconds or self.default_ttl_seconds, and
\* expires_at from the first reading of the clock
CacheSetEnter(k, v, ttl_seconds) ==
    /\ ccall.done
    /\ LET ttl == IF ttl_seconds = NoTtl \/ ttl_seconds = 0 THEN DefaultTtl
                  ELSE ttl_seconds
       IN  ccall' = [NoCacheCall EXCEPT !.op = "set", !.key = k, !.value = v,
                                        !.ttl_seconds = ttl_seconds,
                                        !.ttl = ttl, !.expires_at = now + ttl,
                                        !.done = FALSE]
    /\ UNCHANGED <<now, files>>

\* set, lines 66-78: cache_data with created_at from the second reading of
\* the clock, written to the key's file
CacheSetWrite ==
    /\ ~ccall.done
    /\ ccall.op = "set"
    /\ files' = [files EXCEPT ![ccall.key] =
                   [exists |-> TRUE, key |-> ccall.key, value |-> ccall.value,
                    created_at |-> IsoFormat(now),
                    expires_at |-> IsoFormat(ccall.expires_at)]]
    /\ ccall' = [ccall EXCEPT !.done = TRUE]
    /\ UNCHANGED now

\* lines 105-106, 153-154, 189-190: datetime.utcnow() > expires_at
Expired(entry) == now > FromIsoFormat(entry.expires_at)

\* a delete that leaves the file where it is
UnlinkNothing(fs, k) == fs

\* delete, lines 129-131: cache_path.unlink() if the file exists
Unlink(fs, k) == [fs EXCEPT ![k] = NoFile]

\* get, lines 94-116
CacheGet(k) ==
    /\ ccall.done
    /\ IF ~files[k].exists
       THEN /\ ccall' = [NoCacheCall EXCEPT !.op = "get", !.key = k]
            /\ files' = files
       ELSE IF Expired(files[k])
       THEN /\ ccall' = [NoCacheCall EXCEPT !.op = "get", !.key = k, !.expired = TRUE]
            /\ files' = Unlink(files, k)
       ELSE /\ ccall' = [NoCacheCall EXCEPT !.op = "get", !.key = k, !.hit = TRUE,
                                            !.value = files[k].value]
            /\ files' = files
    /\ UNCHANGED now

\* delete, lines 128-136
CacheDelete(k) ==
    /\ ccall.done
    /\ files' = Unlink(files, k)
    /\ ccall' = [NoCacheCall EXCEPT !.op = "delete", !.key = k]
    /\ UNCHANGED now

\* clear_expired, lines 145-168
CacheClearExpired ==
    /\ ccall.done
    /\ LET stale == {k \in CacheKeys : files[k].exists /\ Expired(files[k])}
       IN  /\ files' = [k \in CacheKeys |-> IF k \in stale THEN NoFile ELSE files[k]]
           /\ ccall' = [NoCacheCall EXCEPT !.op = "clear_expired",
                                           !.cleared = Cardinality(stale)]
    /\ UNCHANGED now

\* get_stats, lines 177-207
CacheGetStats ==
    /\ ccall.done
    /\ LET cache_files == {k \in CacheKeys : files[k].exists}
           expired == {k \in cache_files : Expired(files[k])}
       IN  ccall' = [NoCacheCall EXCEPT
                       !.op = "get_stats",
                       !.stats = [total_entries |-> Cardinality(cache_files),
                                  valid_entries |-> Cardinality(cache_files \ expired),
                                  expired_entries |-> Cardinality(expired)]]
    /\ UNCHANGED <<now, files>>

(***************************************************************************)
(* A get running while another caller sets the same key.  get and delete   *)
(* hold no lock: the file is read, then tested for existence, then         *)
(* unlinked, and the directory can change in between.                      *)
(***************************************************************************)
\* get, lines 95-112: the existence test, the read and the expiry test
GetterRead(k) ==
    /\ getter.pc = "idle"
    /\ getter.calls < MaxGetterCalls
    /\ getter' =
         IF ~files[k].exists
         THEN [GetterIdle EXCEPT !.calls = getter.calls + 1, !.key = k, !.ret = "miss"]
         ELSE IF Expired(files[k])
         THEN [GetterIdle EXCEPT !.calls = getter.calls + 1, !.key = k,
                                 !.pc = "delete"]
         ELSE [GetterIdle EXCEPT !.calls = getter.calls + 1, !.key = k, !.ret = "hit",
                                 !.value = files[k].value]
    /\ UNCHANGED <<now, files, ccall>>

\* delete, lines 129-130: cache_path.exists()
GetterDeleteExists ==
    /\ getter.pc = "delete"
    /\ getter' = IF files[getter.key].exists THEN [getter EXCEPT !.pc = "unlink"]
                 ELSE [getter EXCEPT !.pc = "idle", !.ret = "miss"]
    /\ UNCHANGED <<now, files, ccall>>

\* delete, line 131: cache_path.unlink(), and get's return None at line 109
GetterUnlink ==
    /\ getter.pc = "unlink"
    /\ files' = Unlink(files, getter.key)
    /\ getter' = [getter EXCEPT !.pc = "idle", !.ret = "miss",
                                !.unlinked = files[getter.key], !.at = now]
    /\ UNCHANGED <<now, ccall>>

(***************************************************************************)
(* PIIScanner (src/audit/pii_scanner.py).  The input of scan_data is a     *)
(* nested structure of dicts, lists, strings and other scalars.  A string  *)
(* is described by the pieces of it that the patterns match, in the order  *)
(* in which they stand in the string, each by the kind of its pattern.     *)
(***************************************************************************)
\* PATTERNS, lines 41-53, in the order of the dict
ScannerPatterns ==
    <<"email", "phone", "api_key", "slack_token", "aws_key", "openai_key",
      "anthropic_key", "id_number", "credit_card", "ip_address", "jwt_token">>

\* CRITICAL_TYPES, lines 56-59
CRITICAL_TYPES ==
    {"api_key", "slack_token", "aws_key", "openai_key", "anthropic_key",
     "id_number", "credit_card", "jwt_token"}

\* the values scan_recursive tells apart, lines 151-162
Scalar == [kind |-> "scalar", found |-> <<>>, items |-> <<>>]
Str(found) == [kind |-> "str", found |-> found, items |-> <<>>]
List(items) == [kind |-> "list", found |-> <<>>, items |-> items]
Dict(items) == [kind |-> "dict", found |-> <<>>, items |-> items]

SeqsUpTo(S, n) == UNION {[1..k -> S] : k \in 0..n}

\* the structures handed to scan_data: a scalar, a string (with nothing to
\* find, with an e-mail address, with an AWS key followed by an e-mail
\* address), and the dicts and lists of these and of two nested samples
ScanInputs ==
    LET leaves == {Scalar, Str(<<>>), Str(<<"email">>), Str(<<"aws_key", "email">>)}
        nested == {List(<<Scalar>>), Dict(<<Scalar, Str(<<"aws_key", "email">>)>>)}
        items == SeqsUpTo(leaves \cup nested, MaxItems)
    IN  leaves \cup {List(s) : s \in items} \cup {Dict(s) : s \in items}

\* scan_text, lines 81-101: for each pattern in catalog order, its matches
\* in the order in which they stand in the text
RECURSIVE ScanText(_, _, _)
ScanText(found, context, p) ==
    IF p > Len(ScannerPatterns) THEN <<>>
    ELSE LET pii_type == ScannerPatterns[p]
             at == SelectSeq([i \in 1..Len(found) |-> i],
                             LAMBDA i : found[i] = pii_type)
         IN  [j \in 1..Len(at) |->
                 [type |-> pii_type, value |-> at[j], context |-> context]]
             \o ScanText(found, context, p + 1)

\* scan_recursive, lines 148-162: what one call adds to items_scanned
RECURSIVE ItemsScanned(_), ItemsScannedIn(_, _)
ItemsScanned(obj) ==
    IF obj.kind = "dict" THEN ItemsScannedIn(obj.items, Len(obj.items))
    ELSE IF obj.kind = "list"
         THEN Len(obj.items) + ItemsScannedIn(obj.items, Len(obj.items))
    ELSE IF obj.kind = "str" THEN 0
    ELSE 1
ItemsScannedIn(items, n) ==
    IF n = 0 THEN 0 ELSE ItemsScannedIn(items, n - 1) + ItemsScanned(items[n])

\* scan_recursive, lines 148-162: what one call appends to all_matches; the
\* path of an item is the path so far and its key, f"{path}.{key}" (the keys
\* of a dict are "a", "b", ... in insertion order), or its index,
\* f"{path}[{idx}]"
RECURSIVE AllMatches(_, _, _), AllMatchesIn(_, _, _, _)
AllMatches(obj, source, path) ==
    IF obj.kind \in {"dict", "list"} THEN AllMatchesIn(obj, source, path, 1)
    ELSE IF obj.kind = "str"
         THEN ScanText(obj.found, [source |-> source, path |-> path], 1)
    ELSE <<>>
AllMatchesIn(obj, source, path, i) ==
    IF i > Len(obj.items) THEN <<>>
    ELSE AllMatches(obj.items[i], source,
                    path \o <<IF obj.kind = "dict" THEN <<"a", "b", "c", "d">>[i]
                               ELSE <<"[0]", "[1]", "[2]", "[3]">>[i]>>)
         \o AllMatchesIn(obj, source, path, i + 1)

IsCritical(match) == match.type \in CRITICAL_TYPES

\* scan_data, lines 145-188
ScanDataResult(obj, source) ==
    LET all_matches == AllMatches(obj, source, <<>>)
        items_scanned == ItemsScanned(obj)
        pii_types == {all_matches[i].type : i \in 1..Len(all_matches)}
        matches_by_type ==
            [t \in pii_types |->
                Cardinality({i \in 1..Len(all_matches) : all_matches[i].type = t})]
        critical_matches == SelectSeq(all_matches, IsCritical)
    IN  [total_items_scanned |-> items_scanned,
         pii_matches_found |-> Len(all_matches),
         pii_types_detected |-> pii_types,
         matches_by_type |-> matches_by_type,
         critical_matches |-> critical_matches,
         warnings |-> IF critical_matches # <<>> THEN 1 ELSE 0,
         passed |-> (Len(critical_matches) = 0)]

\* no scan made yet
NoScanCall == [op |-> "none", source |-> "", loaded |-> FALSE]
NoScanResult ==
    [total_items_scanned |-> 0, pii_matches_found |-> 0, pii_types_detected |-> {},
     matches_by_type |-> <<>>, critical_matches |-> <<>>, warnings |-> 0,
     passed |-> TRUE]

\* a scanner, and the structure it is about to be given (in memory, or as
\* the content of the JSON file)
ScanInit ==
    /\ data \in ScanInputs
    /\ scall = NoScanCall
    /\ scan_result = NoScanResult

ScanIdle ==
    /\ data = Scalar
    /\ scall = NoScanCall
    /\ scan_result = NoScanResult

\* scan_data(data), lines 130-199
ScanData ==
    /\ scall.op = "none"
    /\ scall' = [op |-> "scan_data", source |-> "unknown", loaded |-> TRUE]
    /\ scan_result' = ScanDataResult(data, "unknown")
    /\ UNCHANGED data

\* scan_json_file(file_path), lines 103-128: open and json.load succeed and
\* scan_data runs on the content, or one of them raises
ScanJsonFile(loaded) ==
    /\ scall.op = "none"
    /\ scall' = [op |-> "scan_json_file", source |-> "file", loaded |-> loaded]
    /\ scan_result' =
          IF loaded THEN ScanDataResult(data, "file")
          ELSE [total_items_scanned |-> 0,
                pii_matches_found |-> 0,
                pii_types_detected |-> {},
                matches_by_type |-> <<>>,
                critical_matches |-> <<>>,
                warnings |-> 1,
                passed |-> FALSE]
    /\ UNCHANGED data

(***************************************************************************)
(* PIIRedactor.redact on characters (src/processing/pii_redactor.py).  A   *)
(* text is the sequence of its characters.  A pattern is the syntax tree   *)
(* of its regular expression, and matching follows the order in which the  *)
(* backtracking matcher of re tries the alternatives: greedy repetitions   *)
(* take as many turns as they can first, alternatives are tried from left  *)
(* to right, and the first complete match wins.                            *)
(***************************************************************************)
Digits == {"0", "1", "2", "3", "4", "5", "6", "7", "8", "9"}
Upper == {"A", "B", "C", "D", "E", "F", "G", "H", "I", "J", "K", "L", "M", "N", "O", "P", "Q", "R", "S", "T", "U", "V", "W", "X", "Y", "Z"}
Lower == {"a", "b", "c", "d", "e", "f", "g", "h", "i", "j", "k", "l", "m", "n", "o", "p", "q", "r", "s", "t", "u", "v", "w", "x", "y", "z"}
Alnum == Digits \cup Upper \cup Lower
\* \w
WordChars == Alnum \cup {"_"}

\* the nodes of a pattern: one character of a set, \b, a concatenation, an
\* alternation, {lo,hi} and {lo,}
Chr(cs) == [t |-> "set", cs |-> cs, rs |-> <<>>, lo |-> 0, hi |-> 0]
Boundary == [t |-> "b", cs |-> {}, rs |-> <<>>, lo |-> 0, hi |-> 0]
Cat(rs) == [t |-> "cat", cs |-> {}, rs |-> rs, lo |-> 0, hi |-> 0]
Alt(rs) == [t |-> "alt", cs |-> {}, rs |-> rs, lo |-> 0, hi |-> 0]
Rep(r, lo, hi) == [t |-> "rep", cs |-> {}, rs |-> <<r>>, lo |-> lo, hi |-> hi]
AtLeast(r, lo) == [t |-> "min", cs |-> {}, rs |-> <<r>>, lo |-> lo, hi |-> 0]
Opt(r) == Rep(r, 0, 1)
Lit(s) == Cat([i \in 1..Len(s) |-> Chr({s[i]})])

\* PATTERNS, lines 24-33, in the order of the dict
PATTERNS ==
    <<
      \* \b[A-Za-z0-9._%+-]+@[A-Za-z0-9.-]+\.[A-Z|a-z]{2,}\b
      Cat(<<Boundary, AtLeast(Chr(Alnum \cup {".", "_", "%", "+", "-"}), 1), Chr({"@"}),
            AtLeast(Chr(Alnum \cup {".", "-"}), 1), Chr({"."}),
            AtLeast(Chr(Upper \cup Lower \cup {"|"}), 2), Boundary>>),
      \* \b(?:\+?1[-.]?)?\(?([0-9]{3})\)?[-.]?([0-9]{3})[-.]?([0-9]{4})\b
      Cat(<<Boundary,
            Opt(Cat(<<Opt(Chr({"+"})), Chr({"1"}), Opt(Chr({"-", "."}))>>)),
            Opt(Chr({"("})), Rep(Chr(Digits), 3, 3), Opt(Chr({")"})),
            Opt(Chr({"-", "."})), Rep(Chr(Digits), 3, 3),
            Opt(Chr({"-", "."})), Rep(Chr(Digits), 4, 4), Boundary>>),
      \* \b(?:sk-|pk_|key-)[a-zA-Z0-9]{20,}\b
      Cat(<<Boundary, Alt(<<Lit(<<"s", "k", "-">>), Lit(<<"p", "k", "_">>), Lit(<<"k", "e", "y", "-">>)>>),
            AtLeast(Chr(Alnum), 20), Boundary>>),
      \* \b(?:AKIA|ASIA)[A-Z0-9]{16}\b
      Cat(<<Boundary, Alt(<<Lit(<<"A", "K", "I", "A">>), Lit(<<"A", "S", "I", "A">>)>>),
            Rep(Chr(Upper \cup Digits), 16, 16), Boundary>>),
      \* \b(?:4[0-9]{12}(?:[0-9]{3})?|5[1-5][0-9]{14}|3[47][0-9]{13})\b
      Cat(<<Boundary,
            Alt(<<Cat(<<Chr({"4"}), Rep(Chr(Digits), 12, 12), Opt(Rep(Chr(Digits), 3, 3))>>),
                  Cat(<<Chr({"5"}), Chr({"1", "2", "3", "4", "5"}), Rep(Chr(Digits), 14, 14)>>),
                  Cat(<<Chr({"3"}), Chr({"4", "7"}), Rep(Chr(Digits), 13, 13)>>)>>),
            Boundary>>),
      \* \b\d{3}-\d{2}-\d{4}\b
      Cat(<<Boundary, Rep(Chr(Digits), 3, 3), Chr({"-"}), Rep(Chr(Digits), 2, 2),
            Chr({"-"}), Rep(Chr(Digits), 4, 4), Boundary>>),
      \* \b(?:[0-9]{1,3}\.){3}[0-9]{1,3}\b
      Cat(<<Boundary, Rep(Cat(<<Rep(Chr(Digits), 1, 3), Chr({"."})>>), 3, 3),
            Rep(Chr(Digits), 1, 3), Boundary>>),
      \* \bBearer\s+[A-Za-z0-9\-._~+/]+=*\b
      Cat(<<Boundary, Lit(<<"B", "e", "a", "r", "e", "r">>), AtLeast(Chr({" ", "\t", "\n"}), 1),
            AtLeast(Chr(Alnum \cup {"-", ".", "_", "~", "+", "/"}), 1),
            AtLeast(Chr({"="}), 0), Boundary>>)
    >>

\* the catalog in the order of the dict
PiiTypes ==
    <<"email", "phone", "api_key", "aws_key", "credit_card", "ssn", "ip_address",
      "bearer_token">>

\* a catalog in which the placeholder of an IP address is a dotted quad
ReplacementDotted(p) ==
    <<<<"[", "E", "M", "A", "I", "L", "_", "R", "E", "D", "A", "C", "T", "E", "D", "]">>,
      <<"[", "P", "H", "O", "N", "E", "_", "R", "E", "D", "A", "C", "T", "E", "D", "]">>,
      <<"[", "A", "P", "I", "_", "K", "E", "Y", "_", "R", "E", "D", "A", "C", "T", "E", "D", "]">>,
      <<"[", "A", "W", "S", "_", "K", "E", "Y", "_", "R", "E", "D", "A", "C", "T", "E", "D", "]">>,
      <<"[", "C", "R", "E", "D", "I", "T", "_", "C", "A", "R", "D", "_", "R", "E", "D", "A", "C", "T", "E", "D", "]">>,
      <<"[", "S", "S", "N", "_", "R", "E", "D", "A", "C", "T", "E", "D", "]">>,
      <<"0", ".", "0", ".", "0", ".", "0">>,
      <<"[", "B", "E", "A", "R", "E", "R", "_", "T", "O", "K", "E", "N", "_", "R", "E", "D", "A", "C", "T", "E", "D", "]">>>>[p]

\* REPLACEMENTS, lines 35-44
Replacement(p) ==
    <<<<"[", "E", "M", "A", "I", "L", "_", "R", "E", "D", "A", "C", "T", "E", "D", "]">>,
      <<"[", "P", "H", "O", "N", "E", "_", "R", "E", "D", "A", "C", "T", "E", "D", "]">>,
      <<"[", "A", "P", "I", "_", "K", "E", "Y", "_", "R", "E", "D", "A", "C", "T", "E", "D", "]">>,
      <<"[", "A", "W", "S", "_", "K", "E", "Y", "_", "R", "E", "D", "A", "C", "T", "E", "D", "]">>,
      <<"[", "C", "R", "E", "D", "I", "T", "_", "C", "A", "R", "D", "_", "R", "E", "D", "A", "C", "T", "E", "D", "]">>,
      <<"[", "S", "S", "N", "_", "R", "E", "D", "A", "C", "T", "E", "D", "]">>,
      <<"[", "I", "P", "_", "R", "E", "D", "A", "C", "T", "E", "D", "]">>,
      <<"[", "B", "E", "A", "R", "E", "R", "_", "T", "O", "K", "E", "N", "_", "R", "E", "D", "A", "C", "T", "E", "D", "]">>>>[p]

\* \b at index i of s: a word character on exactly one side
WordBoundary(s, i) ==
    (i >= 1 /\ s[i] \in WordChars) # (i < Len(s) /\ s[i + 1] \in WordChars)

\* the number of characters of cs that follow index i of s without a break
Run(cs, s, i) ==
    (CHOOSE j \in i..Len(s) :
        /\ j = Len(s) \/ s[j + 1] \notin cs
        /\ \A k \in (i + 1)..j : s[k] \in cs) - i

\* the indices at which a match of r that starts at index i of s can end, in
\* the order in which the matcher finds them
RECURSIVE Ends(_, _, _), EndsCat(_, _, _, _), EndsAlt(_, _, _, _),
          EndsRep(_, _, _, _, _), EndsEach(_, _, _, _, _, _)
Ends(r, s, i) ==
    CASE r.t = "set" -> IF i < Len(s) /\ s[i + 1] \in r.cs THEN <<i + 1>> ELSE <<>>
      [] r.t = "b" -> IF WordBoundary(s, i) THEN <<i>> ELSE <<>>
      [] r.t = "cat" -> EndsCat(r.rs, 1, s, i)
      [] r.t = "alt" -> EndsAlt(r.rs, 1, s, i)
      [] r.t = "rep" -> EndsRep(r.rs[1], r.lo, r.hi, s, i)
      [] r.t = "min" -> EndsRep(r.rs[1], r.lo, r.lo + Len(s), s, i)
\* rs[k], then the rest of the concatenation from each of its ends
EndsCat(rs, k, s, i) ==
    IF k > Len(rs) THEN <<i>>
    ELSE LET heads == Ends(rs[k], s, i)
             F[n \in 0..Len(heads)] ==
                 IF n = 0 THEN <<>> ELSE F[n - 1] \o EndsCat(rs, k + 1, s, heads[n])
         IN  F[Len(heads)]
EndsAlt(rs, k, s, i) ==
    IF k > Len(rs) THEN <<>> ELSE Ends(rs[k], s, i) \o EndsAlt(rs, k + 1, s, i)
\* greedy: one more turn first, stopping here last; the turns of a
\* character set are the characters of the run that starts at i
EndsRep(r, lo, hi, s, i) ==
    IF r.t = "set"
    THEN LET n == Min(Run(r.cs, s, i), hi)
         IN  IF n < lo THEN <<>> ELSE [k \in 1..(n - lo + 1) |-> i + n - k + 1]
    ELSE (IF hi = 0 THEN <<>> ELSE EndsEach(r, lo, hi, s, Ends(r, s, i), 1))
         \o (IF lo = 0 THEN <<i>> ELSE <<>>)
EndsEach(r, lo, hi, s, turn, n) ==
    IF n > Len(turn) THEN <<>>
    ELSE EndsRep(r, IF lo = 0 THEN 0 ELSE lo - 1, hi - 1, s, turn[n])
         \o EndsEach(r, lo, hi, s, turn, n + 1)

\* re.finditer(pattern, s), line 84: the matches from left to right, none
\* overlapping another, from index i on
RECURSIVE Finditer(_, _, _)
Finditer(r, s, i) ==
    IF i > Len(s) THEN <<>>
    ELSE LET ends == Ends(r, s, i)
         IN  IF ends = <<>> THEN Finditer(r, s, i + 1)
             ELSE <<[start |-> i, end |-> ends[1]]>>
                  \o Finditer(r, s, IF ends[1] > i THEN ends[1] ELSE i + 1)

\* s.find(value): the index of the first occurrence, -1 when there is none
Find(s, value) ==
    LET at == {q \in 0..(Len(s) - Len(value)) : PySlice(s, q, q + Len(value)) = value}
    IN  IF at = {} THEN -1 ELSE CHOOSE q \in at : \A p \in at : q <= p

\* s.replace(value, replacement, 1), line 99
Replace(s, value, replacement) ==
    LET q == Find(s, value)
    IN  IF q = -1 THEN s
        ELSE PySlice(s, 0, q) \o replacement \o PySlice(s, q + Len(value), Len(s))

\* lines 86-99: the matches of one pattern, one after the other.  r is the
\* result so far; spans holds, for each match still to come, where its span
\* stands in the current redacted_text.  r.trace keeps, for each recorded
\* redaction, the text finditer ran on, where the matched span stood when
\* it was replaced and where replace put the placeholder.
RECURSIVE RedactMatches(_, _, _, _, _, _)
RedactMatches(r, p, subject, matches, spans, m) ==
    IF m > Len(matches) THEN r
    ELSE LET match == matches[m]
             original_value == PySlice(subject, match.start, match.end)
             replacement == Replacement(p)
             q == Find(r.redacted_text, original_value)
             delta == Len(replacement) - Len(original_value)
         IN  RedactMatches(
                 [redacted_text |-> Replace(r.redacted_text, original_value, replacement),
                  redactions |-> Append(r.redactions,
                                        [type |-> PiiTypes[p],
                                         position |-> match.start,
                                         length |-> Len(original_value),
                                         replacement |-> replacement]),
                  trace |-> Append(r.trace,
                                   [subject |-> subject, span_at |-> spans[m],
                                    replaced_at |-> q])],
                 p, subject, matches,
                 [n \in 1..Len(spans) |->
                     IF q # -1 /\ q < spans[n] THEN spans[n] + delta ELSE spans[n]],
                 m + 1)

\* lines 83-99: the patterns in catalog order, each on the text the ones
\* before it left
RECURSIVE RedactPatterns(_, _)
RedactPatterns(r, p) ==
    IF p > Len(PATTERNS) THEN r
    ELSE LET matches == Finditer(PATTERNS[p], r.redacted_text, 0)
         IN  RedactPatterns(
                 RedactMatches(r, p, r.redacted_text, matches,
                               [n \in 1..Len(matches) |-> matches[n].start], 1),
                 p + 1)

\* redact, lines 55-112
RedactText(t) ==
    IF ~enabled \/ t = <<>>
    THEN [redacted_text |-> t, redactions |-> <<>>, redaction_count |-> 0,
          trace |-> <<>>, done |-> TRUE]
    ELSE LET r == RedactPatterns([redacted_text |-> t, redactions |-> <<>>,
                                  trace |-> <<>>], 1)
         IN  [redacted_text |-> r.redacted_text, redactions |-> r.redactions,
              redaction_count |-> Len(r.redactions), trace |-> r.trace, done |-> TRUE]

\* no redact call made yet
NoRedaction ==
    [redacted_text |-> <<>>, redactions |-> <<>>, redaction_count |-> 0,
     trace |-> <<>>, done |-> FALSE]

RECURSIVE Join(_, _)
Join(ps, n) == IF n = 0 THEN <<>> ELSE Join(ps, n - 1) \o ps[n]

\* the texts handed to redact: one value of each kind of the catalog, and
\* the texts put together from a letter, a blank and a social security
\* number
RedactTexts ==
    LET values ==
            {<<"a", "@", "b", ".", "c", "o">>,
             <<"5", "5", "5", "-", "1", "2", "3", "-", "4", "5", "6", "7">>,
             <<"s", "k", "-", "a", "b", "c", "d", "e", "f", "g", "h", "i", "j", "0", "1", "2", "3", "4", "5", "6", "7", "8", "9">>,
             <<"A", "K", "I", "A", "A", "B", "C", "D", "E", "F", "G", "H", "I", "J", "0", "1", "2", "3", "4", "5">>,
             <<"4", "1", "1", "1", "1", "1", "1", "1", "1", "1", "1", "1", "1">>,
             <<"1", "2", "3", "-", "4", "5", "-", "6", "7", "8", "9">>,
             <<"1", ".", "2", ".", "3", ".", "4">>,
             <<"B", "e", "a", "r", "e", "r", " ", "a", "b", "c">>}
        pieces == {<<"x">>, <<" ">>, <<"1", "2", "3", "-", "4", "5", "-", "6", "7", "8", "9">>}
    IN  values \cup {Join(ps, Len(ps)) : ps \in SeqsUpTo(pieces, MaxPieces)}

\* a PIIRedactor, lines 46-53, and the text it is about to be given
RedactInit ==
    /\ enabled \in BOOLEAN
    /\ pii_text \in RedactTexts
    /\ first = NoRedaction
    /\ second = NoRedaction

RedactIdle ==
    /\ enabled = TRUE
    /\ pii_text = <<>>
    /\ first = NoRedaction
    /\ second = NoRedaction

\* redact(text)
RedactCall ==
    /\ ~first.done
    /\ first' = RedactText(pii_text)
    /\ UNCHANGED <<enabled, pii_text, second>>

\* redact(redact(text).redacted_text)
RedactAgain ==
    /\ first.done
    /\ ~second.done
    /\ second' = RedactText(first.redacted_text)
    /\ UNCHANGED <<enabled, pii_text, first>>

(***************************************************************************)
(* Specifications                                                          *)
(***************************************************************************)
\* chunk_text on its own
ChunkNext ==
    \/ ChunkTextEnter /\ UNCHANGED <<embedVars, concVars, procVars, piiVars, storageVars>>
    \/ ChunkTextWindow /\ UNCHANGED <<embedVars, concVars, procVars, piiVars, storageVars>>
    \/ ChunkTextReturn /\ UNCHANGED <<embedVars, concVars, procVars, piiVars, storageVars>>

StorageIdle == PineIdle /\ CacheIdle

InitChunk == ChunkInit /\ EmbedderInit /\ ConcInit /\ ProcInit /\ ScanIdle /\ RedactIdle /\ StorageIdle

SpecChunk == InitChunk /\ [][ChunkNext]_vars

\* one embed_text call of a sequential caller
CallEmbedText ==
    /\ \E t \in EmbedTexts, o \in Outcomes : EmbedText(t, o)
    /\ UNCHANGED <<chunkVars, concVars, procVars, piiVars, storageVars>>

\* one embed_batch call of a sequential caller
CallEmbedBatch ==
    /\ \E texts \in BatchInputs : EmbedBatchEnter(texts)
    /\ UNCHANGED <<chunkVars, concVars, procVars, piiVars, storageVars>>

\* the service answers one sub-batch request
CallEmbedBatchStep ==
    /\ \E o \in Outcomes : EmbedBatchSubBatch(o)
    /\ UNCHANGED <<chunkVars, concVars, procVars, piiVars, storageVars>>

InitEmbed == ChunkIdle /\ EmbedderInit /\ ConcInit /\ ProcInit /\ ScanIdle /\ RedactIdle /\ StorageIdle

\* one Embedder, embed_text calls only
SpecEmbed == InitEmbed /\ [][CallEmbedText]_vars

BatchNext ==
    \/ ncalls < MaxBatchCalls /\ CallEmbedText
    \/ CallEmbedBatch
    \/ CallEmbedBatchStep

\* one Embedder, embed_text and embed_batch calls
SpecBatch == InitEmbed /\ [][BatchNext]_vars

ConcNext ==
    \/ \E t \in Threads, txt \in EmbedTexts :
          ThreadEnter(t, txt) /\ UNCHANGED <<chunkVars, procVars, piiVars, storageVars>>
    \/ \E t \in Threads, o \in Outcomes :
          ThreadRequest(t, o) /\ UNCHANGED <<chunkVars, procVars, piiVars, storageVars>>
    \/ \E t \in Threads : ThreadLoadTokens(t) /\ UNCHANGED <<chunkVars, procVars, piiVars, storageVars>>
    \/ \E t \in Threads : ThreadStoreTokens(t) /\ UNCHANGED <<chunkVars, procVars, piiVars, storageVars>>
    \/ \E t \in Threads : ThreadLoadCost(t) /\ UNCHANGED <<chunkVars, procVars, piiVars, storageVars>>
    \/ \E t \in Threads : ThreadStoreCost(t) /\ UNCHANGED <<chunkVars, procVars, piiVars, storageVars>>

\* one Embedder, two threads calling embed_text
SpecConc == InitEmbed /\ [][ConcNext]_vars

ProcNext ==
    \/ (\E msg \in Messages : IngestBegin(msg)) /\ UNCHANGED <<storageVars, piiVars>>
    \/ IngestChunk /\ UNCHANGED <<storageVars, piiVars>>
    \/ IngestEmbed /\ UNCHANGED <<storageVars, piiVars>>
    \/ (\E o \in Outcomes : FunctionEmbedStep(o)) /\ UNCHANGED <<storageVars, piiVars>>
    \/ (\E ok \in BOOLEAN : IngestUpsert(ok)) /\ UNCHANGED <<storageVars, piiVars>>
    \/ (\E texts \in FunctionTexts : EmbedFunctionBegin(texts)) /\ UNCHANGED <<storageVars, piiVars>>
    \/ EmbedFunctionCall /\ UNCHANGED <<storageVars, piiVars>>
    \/ EmbedFunctionReturn /\ UNCHANGED <<storageVars, piiVars>>
    \/ (\E q \in Queries, ns \in QueryNamespaces : QueryFunctionBegin(q, ns))
          /\ UNCHANGED <<storageVars, piiVars>>
    \/ (\E o \in Outcomes : QueryFunctionSearch(o)) /\ UNCHANGED <<storageVars, piiVars>>

StoreNext ==
    \/ (\E inp \in UpsertInputs, ns \in {"slack/"} : UpsertVectorsEnter(inp, ns))
          /\ UNCHANGED <<chunkVars, embedVars, concVars, procVars, piiVars, cacheVars>>
    \/ (\E ok \in BOOLEAN : UpsertVectorsBatch(ok))
          /\ UNCHANGED <<chunkVars, embedVars, concVars, procVars, piiVars, cacheVars>>
    \/ (\E v \in QueryVectors, ns \in {"slack/", "default"}, ok \in BOOLEAN :
            PineQuery(v, ns, ok))
          /\ UNCHANGED <<chunkVars, embedVars, concVars, procVars, piiVars, cacheVars>>
    \/ (\E v \in QueryVectors, oks \in [Sources -> BOOLEAN] :
            PineQueryAllNamespaces(v, oks))
          /\ UNCHANGED <<chunkVars, embedVars, concVars, procVars, piiVars, cacheVars>>

InitStore == ChunkIdle /\ EmbedderInit /\ ConcInit /\ ProcInit /\ ScanIdle /\ RedactIdle /\ PineInit /\ CacheIdle

\* one PineconeStore and the index it is connected to
SpecStore == InitStore /\ [][StoreNext]_vars

CacheNext ==
    \/ Tick
          /\ UNCHANGED <<chunkVars, embedVars, concVars, procVars, piiVars, pineVars, getter>>
    \/ (\E k \in CacheKeys, v \in CacheValues, ttl_seconds \in TtlArgs :
            CacheSetEnter(k, v, ttl_seconds))
          /\ UNCHANGED <<chunkVars, embedVars, concVars, procVars, piiVars, pineVars, getter>>
    \/ CacheSetWrite
          /\ UNCHANGED <<chunkVars, embedVars, concVars, procVars, piiVars, pineVars, getter>>
    \/ (\E k \in CacheKeys : CacheGet(k))
          /\ UNCHANGED <<chunkVars, embedVars, concVars, procVars, piiVars, pineVars, getter>>
    \/ (\E k \in CacheKeys : CacheDelete(k))
          /\ UNCHANGED <<chunkVars, embedVars, concVars, procVars, piiVars, pineVars, getter>>
    \/ CacheClearExpired
          /\ UNCHANGED <<chunkVars, embedVars, concVars, procVars, piiVars, pineVars, getter>>
    \/ CacheGetStats
          /\ UNCHANGED <<chunkVars, embedVars, concVars, procVars, piiVars, pineVars, getter>>

InitCache == ChunkIdle /\ EmbedderInit /\ ConcInit /\ ProcInit /\ ScanIdle /\ RedactIdle /\ PineIdle /\ CacheIdle

\* one CloudStorageCache used by one caller, and the clock
SpecCache == InitCache /\ [][CacheNext]_vars

\* the key both callers use
ContendedKey == "k1"

CacheConcNext ==
    \/ Tick
          /\ UNCHANGED <<chunkVars, embedVars, concVars, procVars, piiVars, pineVars, getter>>
    \/ (\E v \in CacheValues, ttl_seconds \in {1, NoTtl} :
            CacheSetEnter(ContendedKey, v, ttl_seconds))
          /\ UNCHANGED <<chunkVars, embedVars, concVars, procVars, piiVars, pineVars, getter>>
    \/ CacheSetWrite
          /\ UNCHANGED <<chunkVars, embedVars, concVars, procVars, piiVars, pineVars, getter>>
    \/ GetterRead(ContendedKey)
          /\ UNCHANGED <<chunkVars, embedVars, concVars, procVars, piiVars, pineVars>>
    \/ GetterDeleteExists
          /\ UNCHANGED <<chunkVars, embedVars, concVars, procVars, piiVars, pineVars>>
    \/ GetterUnlink
          /\ UNCHANGED <<chunkVars, embedVars, concVars, procVars, piiVars, pineVars>>

\* one cache directory, one caller setting and one caller getting, the clock
SpecCacheConc == InitCache /\ [][CacheConcNext]_vars

\* one process serving cloud function invocations one after the other
SpecProc == InitEmbed /\ [][ProcNext]_vars

ScanNext ==
    \/ ScanData
          /\ UNCHANGED <<chunkVars, embedVars, concVars, procVars, storageVars,
                       enabled, pii_text, first, second>>
    \/ (\E loaded \in BOOLEAN : ScanJsonFile(loaded))
          /\ UNCHANGED <<chunkVars, embedVars, concVars, procVars, storageVars,
                       enabled, pii_text, first, second>>

InitScan ==
    ChunkIdle /\ EmbedderInit /\ ConcInit /\ ProcInit /\ StorageIdle /\ ScanInit /\ RedactIdle

\* one PIIScanner and the structure it scans
SpecScan == InitScan /\ [][ScanNext]_vars

RedactNext ==
    \/ RedactCall
          /\ UNCHANGED <<chunkVars, embedVars, concVars, procVars, storageVars,
                       data, scall, scan_result>>
    \/ RedactAgain
          /\ UNCHANGED <<chunkVars, embedVars, concVars, procVars, storageVars,
                       data, scall, scan_result>>

InitRedact ==
    ChunkIdle /\ EmbedderInit /\ ConcInit /\ ProcInit /\ StorageIdle /\ ScanIdle /\ RedactInit

\* one PIIRedactor, a text, and redact run on it and then on its own output
SpecRedact == InitRedact /\ [][RedactNext]_vars


(***************************************************************************)
(* Claims about chunk_text (checked under SpecChunk).                      *)
(***************************************************************************)
TotalTokens == Len(Encode(text))

\* the sliding-window case the claims are about: T > W and 0 <= O < W
Sliding == TotalTokens > chunk_size /\ overlap_size >= 0 /\ overlap_size < chunk_size

\* the tokens of segment k that are not a repetition of its predecessor's tail
Fresh(cs, k) ==
    IF k = 1 THEN cs[k].content
    ELSE SubSeq(cs[k].content, overlap_size + 1, Len(cs[k].content))

RECURSIVE ConcatFresh(_, _)
ConcatFresh(cs, k) == IF k = 0 THEN <<>> ELSE ConcatFresh(cs, k - 1) \o Fresh(cs, k)

\* C1: for T > W and 0 <= O < W chunk_text terminates.  The loop's only
\* control state is start_idx and its body is deterministic, so it terminates
\* exactly when no window start is ever visited a second time; a terminating
\* call therefore never produces two segments with the same start_token.
C1_ChunkTextTerminates ==
    Sliding =>
        \A i, j \in 1..Len(chunks) :
            i < j => chunks[i].metadata.start_token # chunks[j].metadata.start_token

C3_OverlapAndSizes ==
    Sliding =>
        /\ \A k \in 1..(Len(chunks) - 1) :
             /\ chunks[k + 1].metadata.start_token
                  = chunks[k].metadata.end_token - overlap_size
             /\ chunks[k].token_count = chunk_size
        /\ chunks # <<>> => chunks[Len(chunks)].token_count <= chunk_size

\* C4: every segment returned by one call carries total_chunks, equal to the
\* number of segments returned, for every non-empty text (single-window
\* texts included).
C4_TotalChunksOnEverySegment ==
    cpc = "done" =>
        \A k \in 1..Len(chunks) :
            /\ "total_chunks" \in DOMAIN chunks[k].metadata
            /\ chunks[k].metadata.total_chunks = Len(chunks)

\* C5: a 1200-token text with W = 500 and O = 50 yields exactly 3 segments,
\* of 500, 500 and at most 500 tokens, each with total_chunks = 3.
C5_Example1200 ==
    (TotalTokens = 1200 /\ chunk_size = 500 /\ overlap_size = 50) =>
        /\ Len(chunks) <= 3
        /\ cpc = "done" =>
             /\ Len(chunks) = 3
             /\ chunks[1].token_count = 500
             /\ chunks[2].token_count = 500
             /\ chunks[3].token_count <= 500
             /\ \A k \in 1..3 : chunks[k].metadata.total_chunks = 3

(***************************************************************************)
(* Claims about the Embedder's budget and counters.                        *)
(***************************************************************************)
\* C6: an embed_text call made when total_cost_usd plus the estimated cost of
\* its text exceeds monthly_budget_usd returns None, sends no request to the
\* embedding service and leaves total_tokens_used and total_cost_usd as they
\* were.
C6_RefusalIsClean ==
    [][(/\ ncalls' = ncalls + 1
        /\ last'.op = "embed_text"
        /\ total_cost_usd + EstimateCost(last'.texts[1]) > MonthlyBudget)
       => /\ last'.results = <<NoneResult>>
          /\ requests' = requests
          /\ total_tokens_used' = total_tokens_used
          /\ total_cost_usd' = total_cost_usd]_vars

\* C6 witness: an embed_text call was refused for the budget after money was
\* spent.
C6_Witness ==
    /\ last.op = "embed_text"
    /\ last.refused
    /\ total_cost_usd > 0

\* C7 as claimed: once the estimated costs of the embed_text calls made so far
\* sum to more than the budget, at least one of them was refused (returned
\* None); and the spend never exceeds the budget by more than the actual cost
\* of one call.
C7_SomeCallRefused ==
    hist.only_text =>
        /\ hist.est_sum > MonthlyBudget => hist.nones >= 1
        /\ total_cost_usd <= MonthlyBudget + hist.last_actual

\* C7 as amended: the same, for sequences in which every successful call was
\* billed at least its estimated cost; the call that returned None was refused
\* for the budget when, in addition, no request failed.
C7_RefusedWhenBilledAsEstimated ==
    hist.only_text =>
        /\ (hist.est_sum > MonthlyBudget /\ ~hist.under_billed) => hist.nones >= 1
        /\ (hist.est_sum > MonthlyBudget /\ ~hist.under_billed /\ ~hist.failed)
              => hist.refused >= 1
        /\ total_cost_usd <= MonthlyBudget + hist.last_actual

\* C7 witness: the estimates sum to more than the budget, every admitted call
\* was billed at least its estimate, the spend has passed the budget and a
\* call was refused.
C7_Witness ==
    /\ hist.only_text
    /\ ~hist.under_billed
    /\ ~hist.failed
    /\ hist.est_sum > MonthlyBudget
    /\ hist.refused >= 1
    /\ total_cost_usd > MonthlyBudget

\* the step is a service request that succeeded
RequestSucceeded ==
    /\ requests' = requests + 1
    /\ last'.succeeded = 1 + (IF last.done THEN 0 ELSE last.succeeded)

\* C9: over a sequential series of embed_text and embed_batch calls the two
\* counters never decrease, a successful service call adds exactly the usage
\* the service reported to total_tokens_used, a refused or failed call leaves
\* both counters unchanged, and total_tokens_used is always the sum of the
\* usage reported by the successful service calls so far.
C9_CountersFollowUsage ==
    /\ [](total_tokens_used = billed)
    /\ [][/\ total_tokens_used' >= total_tokens_used
          /\ total_cost_usd' >= total_cost_usd
          /\ RequestSucceeded =>
                total_tokens_used' = total_tokens_used + (billed' - billed)
          /\ ~RequestSucceeded =>
                /\ total_tokens_used' = total_tokens_used
                /\ total_cost_usd' = total_cost_usd]_vars

\* C9 witness: an embed_batch call with one failed and one successful
\* sub-batch has returned on an Embedder that had spent tokens before.
C9_Witness ==
    /\ last.op = "embed_batch"
    /\ last.done
    /\ last.succeeded >= 1
    /\ last.requests > last.succeeded
    /\ last.usage > 0
    /\ total_tokens_used > last.usage

\* C8: two callers running embed_text concurrently on one Embedder cannot
\* both pass the budget check and together push total_cost_usd over
\* monthly_budget_usd: as long as no call is billed more than its estimate
\* (which alone can carry a single checked call over the ceiling), the spend
\* stays within the budget.
C8_NoJointOvershoot ==
    ~hist.over_billed => total_cost_usd <= MonthlyBudget

\* C10: the cost counters live as long as the process: the budget check of
\* every cloud function invocation is made against the spend accumulated by
\* all earlier invocations of the process.
C10_CheckSeesProcessSpend ==
    inv.checked => inv.check_base = inv.spent_before

(***************************************************************************)
(* Claims about embed_batch                                                *)
(***************************************************************************)
\* C11: embed_batch returns one entry per input text, in input order: while
\* the call runs the entries built so far stand for the first inputs, at the
\* return there are exactly len(texts) of them, and entry j is None or the
\* result holding the vector of texts[j].
C11_OneEntryPerInputInOrder ==
    last.op = "embed_batch" =>
        /\ Len(last.results) <= Len(last.texts)
        /\ last.done => Len(last.results) = Len(last.texts)
        /\ \A j \in 1..Len(last.results) :
              \/ last.results[j] = NoneResult
              \/ /\ ~last.results[j].none
                 /\ last.results[j].vector = Vector(last.texts[j])

\* an embed_batch call over two sub-batches with different texts has
\* returned, the first sub-batch embedded and the second failed
C11_Witness ==
    /\ last.op = "embed_batch"
    /\ last.done
    /\ Len(last.texts) = BatchSize + 1
    /\ last.texts[1] # last.texts[2]
    /\ ~last.results[1].none
    /\ ~last.results[2].none
    /\ last.results[BatchSize + 1] = NoneResult

\* the positions of sub-batch k in a list of n texts
BatchPositions(k, n) == {j \in 1..n : (j - 1) \div BatchSize = k - 1}

\* C12: a failed sub-batch request leaves both cost counters as they were
\* and adds one None per item of that sub-batch; an admitted embed_batch
\* call sends every sub-batch whatever failed before, and returns each
\* sub-batch either as all None or as all results.
C12_SubBatchFailureIsIsolated ==
    /\ [](last.op = "embed_batch" /\ last.admitted /\ last.done =>
            /\ last.requests * BatchSize >= Len(last.texts)
            /\ Len(last.results) = Len(last.texts)
            /\ \A k \in 1..last.requests :
                  \/ \A j \in BatchPositions(k, Len(last.texts)) :
                        last.results[j] = NoneResult
                  \/ \A j \in BatchPositions(k, Len(last.texts)) :
                        ~last.results[j].none)
    /\ [][(/\ last'.op = "embed_batch"
           /\ requests' = requests + 1
           /\ last'.succeeded = last.succeeded)
          => /\ total_tokens_used' = total_tokens_used
             /\ total_cost_usd' = total_cost_usd
             /\ \A j \in 1..Len(last'.results) :
                   IF j <= Len(last.results)
                   THEN last'.results[j] = last.results[j]
                   ELSE last'.results[j] = NoneResult
             /\ Len(last'.results) - Len(last.results)
                   = Cardinality(BatchPositions(last'.requests, Len(last.texts)))]_vars

\* an embed_batch call has returned whose first sub-batch failed and whose
\* later sub-batch was still sent and embedded, the counters holding the
\* usage of the later one only
C12_Witness ==
    /\ last.op = "embed_batch"
    /\ last.done
    /\ Len(last.texts) = BatchSize + 1
    /\ last.results[1] = NoneResult
    /\ last.results[BatchSize] = NoneResult
    /\ ~last.results[BatchSize + 1].none
    /\ last.requests = 2
    /\ last.usage > 0
    /\ total_tokens_used = last.usage

(***************************************************************************)
(* Claims about the cloud functions and the vector store                   *)
(***************************************************************************)
HasPii(t) == \E i \in 1..Len(t) : t[i] = PiiToken
IsPrefix(p, t) == Len(p) <= Len(t) /\ \A i \in 1..Len(p) : p[i] = t[i]

C14_ValueErrorIffLengthsDiffer ==
    pcall.op = "upsert_vectors" =>
        /\ pcall.outcome = "ValueError"
              <=> (Len(pcall.vectors) # pcall.nids \/ Len(pcall.vectors) # pcall.nmeta)
        /\ pcall.outcome = "ValueError" => pcall.io = 0

\* C15: an upsert_vectors call that got past the validation sends every
\* batch and reports success, whatever batches the service failed; the
\* count it reports is that of the batches the service acknowledged.
C15_BatchFailureReducesCount ==
    (pcall.op = "upsert_vectors" /\ pcall.done /\ pcall.outcome # "ValueError") =>
        /\ pcall.outcome = "ok"
        /\ pcall.io * UpsertBatchSize >= Len(pcall.vectors)

\* C16: the mapping query_all_namespaces returns has one key per known
\* source whose partition query returned at least one match and no other
\* key, never an empty list as a value, and each value lists the partition's
\* matches in the order the service returned them; with all three partition
\* queries answered and one partition holding matches, it has one key.
C16_SparseMapping ==
    pcall.op = "query_all_namespaces" =>
        /\ {e[1] : e \in pcall.mapping}
              = {source \in pcall.served : ServiceMatches(Namespace(source)) # <<>>}
        /\ {e[1] : e \in pcall.mapping} \subseteq {"slack", "notion", "drive"}
        /\ Cardinality({e[1] : e \in pcall.mapping}) = Cardinality(pcall.mapping)
        /\ \A e \in pcall.mapping :
              /\ e[2] # <<>>
              /\ [j \in 1..Len(e[2]) |-> e[2][j].id] = ServiceMatches(Namespace(e[1]))
        /\ (/\ pcall.served = {"slack", "notion", "drive"}
            /\ Cardinality({source \in {"slack", "notion", "drive"} :
                              ServiceMatches(Namespace(source)) # <<>>}) = 1)
              => Cardinality(pcall.mapping) = 1

\* query_all_namespaces has returned over three answered partitions of which
\* only slack holds records, two of them: the mapping has the one key slack
C16_Witness ==
    /\ pcall.op = "query_all_namespaces"
    /\ pcall.served = {"slack", "notion", "drive"}
    /\ ServiceMatches("notion/") = <<>>
    /\ ServiceMatches("drive/") = <<>>
    /\ Len(ServiceMatches("slack/")) >= 2
    /\ {e[1] : e \in pcall.mapping} = {"slack"}

\* the partition the fixed table gives a source, the default one otherwise
TablePartition(source) ==
    CASE source = "slack" -> "slack/"
      [] source = "notion" -> "notion/"
      [] source = "drive" -> "drive/"
      [] OTHER -> "default"

\* C17: every record ingestion stores lies in the partition the table gives
\* its source, the default partition for a source that is not in the table
\* or is missing; records of one source lie in one partition; and an
\* ingestion ends in an error only at the upsert, never over its source.
C17_RoutedByTable ==
    /\ [](\A r \in store : r.namespace = TablePartition(r.id[1]))
    /\ [][/\ store' # store =>
                \A r \in store' \ store :
                   r.id[1] = inv.source /\ r.namespace = TablePartition(inv.source)
          /\ (inv'.fn = "ingest" /\ inv'.status = "error" /\ inv.status # "error")
                => fpc = "ingest_embed"]_vars

\* an ingestion of a known source and one of a message without source have
\* both stored records
C17_Witness ==
    /\ \E r \in store : r.id[1] = "drive" /\ r.namespace = "drive/"
    /\ inv.fn = "ingest" /\ inv.status = "success" /\ inv.source = None
    /\ \E r \in store : r.id[1] = None /\ r.namespace = "default"

\* C18: an upsert_vectors call holding a vector whose length is not the
\* dimension the store was constructed with ends in an error, and what the
\* call stored is stored as it was handed in.
C18_DimensionEnforced ==
    /\ (/\ pcall.op = "upsert_vectors"
        /\ pcall.done
        /\ \E j \in 1..Len(pcall.vectors) : Len(pcall.vectors[j]) # dimension)
          => pcall.outcome \in {"ValueError", "error"}
    /\ pcall.op = "upsert_vectors" =>
          \A j \in 1..Min(Len(pcall.vectors), pcall.io * UpsertBatchSize) :
             \A r \in index :
                (r.namespace = pcall.namespace /\ r.id = j /\ pcall.outcome # "error")
                   => r.values = pcall.vectors[j]

\* C19: a query with an empty query vector makes no call to the vector
\* service and does not return a result list.
C19_EmptyQueryVectorRefused ==
    (pcall.op = "query" /\ pcall.vector = <<>>) =>
        /\ pcall.io = 0
        /\ pcall.outcome # "returned"

C21_ExpiresAtIsCreatedAtPlusTtl ==
    (ccall.op = "set" /\ ccall.done) =>
        FromIsoFormat(files[ccall.key].expires_at)
           = FromIsoFormat(files[ccall.key].created_at) + ccall.ttl

\* C28: a set called with an explicit ttl_seconds >= 0 uses that value as
\* the entry's TTL, zero included; only a set without ttl_seconds uses the
\* default TTL.
C28_ExplicitTtlIsUsed ==
    ccall.op = "set" =>
        /\ ccall.ttl_seconds # NoTtl => ccall.ttl = ccall.ttl_seconds
        /\ ccall.ttl_seconds = NoTtl => ccall.ttl = DefaultTtl

\* C30: the unlink of a get's lazy eviction removes expired entries only:
\* the entry it removed had its expires_at before the time of the removal,
\* whatever a concurrent set has written in between.
C30_EvictionRemovesOnlyExpired ==
    getter.unlinked.exists => getter.at > FromIsoFormat(getter.unlinked.expires_at)

\* C25: for O >= W and T > W chunk_text ends.  The loop's only control state
\* is start_idx, which the call can only leave the loop with once it has
\* reached T; so the guard after the advance must let the loop go on only
\* with a start beyond the start of the window just appended.
C25_OverlapGuardEndsLoop ==
    (/\ overlap_size >= chunk_size
     /\ TotalTokens > chunk_size
     /\ cpc = "loop"
     /\ chunks # <<>>)
       => start_idx > chunks[Len(chunks)].metadata.start_token

\* C27: during an embed_batch call no sub-batch request is sent while
\* total_cost_usd already exceeds monthly_budget_usd: every step that sends a
\* sub-batch starts in a state within the budget.
C27_GateBeforeEverySubBatch ==
    [][(last'.op = "embed_batch" /\ requests' = requests + 1)
          => total_cost_usd <= MonthlyBudget]_vars

\* C29: every vector that ingest_function upserts is stored in a partition
\* that query_all_namespaces queries, whatever the source of the message.
C29_IngestedIsQueried ==
    \A r \in store : r.namespace \in {Namespace(s) : s \in Sources}

\* the non-string scalar leaves of a structure, each counted once
RECURSIVE NonStringLeaves(_), NonStringLeavesIn(_, _)
NonStringLeaves(obj) ==
    IF obj.kind \in {"dict", "list"} THEN NonStringLeavesIn(obj.items, Len(obj.items))
    ELSE IF obj.kind = "str" THEN 0
    ELSE 1
NonStringLeavesIn(items, n) ==
    IF n = 0 THEN 0 ELSE NonStringLeavesIn(items, n - 1) + NonStringLeaves(items[n])

\* the matches the scan found: those of the strings of the structure that
\* was scanned
ScanMatches == IF scall.loaded THEN AllMatches(data, scall.source, <<>>) ELSE <<>>

\* C22: for every PIIScanResult of scan_data and of scan_json_file, passed
\* is false exactly when the result holds a match of a critical kind, and
\* critical_matches is the sub-list of all matches with a critical kind.
C22_PassedIffNoCriticalMatch ==
    scall.op # "none" =>
        /\ scan_result.passed = FALSE
              <=> \E i \in 1..Len(ScanMatches) : IsCritical(ScanMatches[i])
        /\ scan_result.critical_matches = SelectSeq(ScanMatches, IsCritical)

\* C23: total_items_scanned of scan_data is the number of non-string scalar
\* leaves of the input, each counted once.
C23_CountsNonStringLeaves ==
    (scall.op # "none" /\ scall.loaded) =>
        scan_result.total_items_scanned = NonStringLeaves(data)

\* the match lies within a placeholder token standing in the text that
\* finditer ran on
InPlaceholder(subject, position, length) ==
    \E p \in 1..Len(PATTERNS), q \in 0..position :
        /\ position + length <= q + Len(Replacement(p))
        /\ q + Len(Replacement(p)) <= Len(subject)
        /\ PySlice(subject, q, q + Len(Replacement(p))) = Replacement(p)

\* C24: redact run on its own output records no redaction whose match lies
\* within a placeholder token: no catalog pattern matches inside a
\* replacement token.
C24_NoMatchInsidePlaceholder ==
    second.done =>
        \A n \in 1..Len(second.redactions) :
            ~InPlaceholder(second.trace[n].subject, second.redactions[n].position,
                           second.redactions[n].length)

\* redact recorded redactions, and run on its output, which holds their
\* placeholders, it recorded a redaction again
C24_Witness ==
    /\ second.done
    /\ first.redaction_count > 0
    /\ second.redaction_count > 0
    /\ \E p \in 1..Len(PATTERNS) : Find(first.redacted_text, Replacement(p)) # -1

\* C26: for every match that redact records, the occurrence it replaces with
\* the placeholder is the matched span itself.
C26_ReplacesMatchedSpan ==
    first.done =>
        \A n \in 1..Len(first.trace) :
            first.trace[n].replaced_at = first.trace[n].span_at

====
